---- MODULE Spec2Model ----
(***************************************************************************)
(* Model of the templar deployment glue:                                   *)
(*   - scripts/docker_run, lines 1-55: the interactive launch script       *)
(*   - scripts/docker_run, lines 56-89: the PM2 restart tasks (Ansible)    *)
(*   - ecosystem.config.js: the PM2 process launch descriptor set          *)
(* Each part has its own specification (ScriptSpec, CtlSpec, LoadSpec)     *)
(* over its own variables; the variables of the other parts stay at their  *)
(* initial values.                                                         *)
(***************************************************************************)
EXTENDS Integers, Sequences, FiniteSets, TLC

VARIABLES
    \* ---- interactive launch script ----
    stdin,        \* complete input lines not yet read
    tail,         \* unterminated text after the last newline ("" = none)
    pc,           \* position of the script
    field,        \* index of the prompt being executed (1..7)
    shvars,       \* shell variables: name -> value
    exported,     \* names carrying the export attribute
    captured,     \* stdout of the running command substitution (chunks)
    response,     \* prompt_required's local variable `response`
    consumed,     \* per variable, the input lines `read` consumed for it
    ambient,      \* names exported by the invoking environment
    term,         \* what reached the terminal, in order
    composeFile,  \* COMPOSE_FILE
    childEnv,     \* environment handed to `docker compose up`
    composeRc,    \* exit status of `docker compose up` (-1: not run)
    exitStatus    \* exit status of the script (-1: still running)

scriptVars == <<stdin, tail, pc, field, shvars, exported, captured, response,
                consumed, ambient, term, composeFile, childEnv, composeRc, exitStatus>>

VARIABLES
    \* ---- PM2 restart tasks ----
    hotkeys,      \* inventory: variable name -> list of hotkeys, or Undefined
    remoteMode,   \* inventory: remote_mode
    task,         \* index of the task being run (1..5), 6 after the last
    item,         \* index of the loop item being run
    issued,       \* restart directives issued so far, in order
    results,      \* per task: "pending", "ok", "skipped" or "failed"
    play          \* "running", "ok" or "failed"

ctlVars == <<hotkeys, remoteMode, task, item, issued, results, play>>

VARIABLES
    \* ---- PM2 process launch descriptor set ----
    shellEnv,     \* process.env before the file is evaluated
    dotEnv,       \* the content of .env
    apps,         \* module.exports.apps of the latest load (<<>>: none yet)
    loadLog       \* PROJECT_NAME of every load so far, in order

loadVars == <<shellEnv, dotEnv, apps, loadLog>>

vars == <<scriptVars, ctlVars, loadVars>>

----------------------------------------------------------------------------
(* Bounds *)
MaxLines == 5
MaxHotkeys == 6
MaxLoads == 3

----------------------------------------------------------------------------
(* Interactive launch script                                               *)

\* An input line: leading blanks, body, trailing blanks.
Line(lead, body, trail) == [lead |-> lead, body |-> body, trail |-> trail]

LineSet == { Line("", "", ""), Line(" ", "", ""),
             Line("", "validator", ""), Line(" ", "w1", " ") }

TailSet == { "", "part" }

RawLine(l) == l.lead \o l.body \o l.trail

\* `read response`: one variable, default IFS: leading and trailing blanks
\* are removed.
ReadStrip(l) == l.body

\* `read response` on the current input: <<response, status, stdin', tail'>>.
\* At end of input read fails (status 1) and assigns what was left.
Read(in, tl) ==
    IF in # <<>> THEN <<ReadStrip(Head(in)), 0, Tail(in), tl>>
    ELSE <<tl, 1, in, "">>

Echo(text)  == [text |-> text, nl |-> TRUE]
EchoN(text) == [text |-> text, nl |-> FALSE]

RECURSIVE Join(_)
Join(chunks) ==
    IF chunks = <<>> THEN ""
    ELSE Head(chunks).text \o (IF Head(chunks).nl THEN "\n" ELSE "")
         \o Join(Tail(chunks))

Front(s) == SubSeq(s, 1, Len(s) - 1)

\* $(...): the subshell's stdout with the trailing newlines removed.
RECURSIVE CommandSubst(_)
CommandSubst(chunks) ==
    IF chunks = <<>> THEN ""
    ELSE LET last == chunks[Len(chunks)] IN
         IF last.text = "" /\ last.nl THEN CommandSubst(Front(chunks))
         ELSE Join(Front(chunks)) \o last.text

\* ${response:-$default}
DefaultExpand(resp, default) == IF resp = "" THEN default ELSE resp

LoopNever(resp) == FALSE

\* while [ -z "$response" ]
LoopAgain(resp) == resp = ""

Fields == <<
    [var |-> "NODE_TYPE",     kind |-> "default",  prompt |-> "Enter node type (miner/validator)", default |-> "miner"],
    [var |-> "WALLET_NAME",   kind |-> "required", prompt |-> "Enter wallet name", default |-> ""],
    [var |-> "WALLET_HOTKEY", kind |-> "required", prompt |-> "Enter wallet hotkey", default |-> ""],
    [var |-> "WANDB_API_KEY", kind |-> "required", prompt |-> "Enter Weights & Biases API key", default |-> ""],
    [var |-> "NETWORK",       kind |-> "default",  prompt |-> "Enter network", default |-> "test"],
    [var |-> "CUDA_DEVICE",   kind |-> "default",  prompt |-> "Enter CUDA device", default |-> "cuda:0"],
    [var |-> "DEBUG",         kind |-> "default",  prompt |-> "Enable debug mode? (true/false)", default |-> "false"] >>

FieldVars == { Fields[i].var : i \in 1..Len(Fields) }

RequiredMsg == "This field is required"

ExportListShort == { "WALLET_NAME", "WALLET_HOTKEY", "WANDB_API_KEY", "NETWORK",
                     "CUDA_DEVICE" }

\* export WALLET_NAME WALLET_HOTKEY WANDB_API_KEY NETWORK CUDA_DEVICE DEBUG
ExportList == { "WALLET_NAME", "WALLET_HOTKEY", "WANDB_API_KEY", "NETWORK",
                "CUDA_DEVICE", "DEBUG" }

ErrExitOff == FALSE

\* set -e in the script's own shell
ErrExit == TRUE

Assign(f, name, value) ==
    [n \in DOMAIN f \cup {name} |-> IF n = name THEN value ELSE f[n]]

NoLines == [v \in FieldVars |-> <<>>]

\* the longest captured output kept apart by the model; only the loop of
\* prompt_required at end of input reaches it
CaptureCap == 2 * (MaxLines + 2)

Put(s, chunk) == IF Len(s) < CaptureCap THEN Append(s, chunk) ELSE s

ScriptIdle ==
    /\ stdin = <<>>
    /\ tail = ""
    /\ pc = "banner"
    /\ field = 1
    /\ ambient = {}
    /\ shvars = <<>>
    /\ exported = {}
    /\ captured = <<>>
    /\ response = ""
    /\ consumed = NoLines
    /\ term = <<>>
    /\ composeFile = ""
    /\ childEnv = <<>>
    /\ composeRc = -1
    /\ exitStatus = -1

ScriptStart ==
    /\ stdin \in UNION { [1..n -> LineSet] : n \in 0..MaxLines }
    /\ tail \in TailSet
    /\ pc = "banner"
    /\ field = 1
    /\ ambient \in SUBSET {"NODE_TYPE"}
    /\ shvars = [n \in ambient |-> "ambient"]
    /\ exported = ambient
    /\ captured = <<>>
    /\ response = ""
    /\ consumed = NoLines
    /\ term = <<>>
    /\ composeFile = ""
    /\ childEnv = <<>>
    /\ composeRc = -1
    /\ exitStatus = -1

\* lines 31-32
Banner ==
    /\ UNCHANGED <<ctlVars, loadVars>>
    /\ pc = "banner"
    /\ term' = term \o <<"Templar Mining Docker Configuration", "-----">>
    /\ pc' = "prompt"
    /\ UNCHANGED <<stdin, tail, field, shvars, exported, captured, response, consumed, ambient,
                   composeFile, childEnv, composeRc, exitStatus>>

NextField ==
    IF field < Len(Fields)
    THEN field' = field + 1 /\ pc' = "prompt"
    ELSE field' = field /\ pc' = "export"

\* what `read` takes from the input: the next line, else the unterminated
\* rest, else nothing
Taken(in, tl) ==
    IF in # <<>> THEN <<Head(in)>>
    ELSE IF tl # "" THEN <<Line("", tl, "")>> ELSE <<>>

\* VAR=$(prompt_with_default <prompt> <default>), lines 5-13 and 34, 38-40
PromptWithDefault ==
    /\ UNCHANGED <<ctlVars, loadVars>>
    /\ pc = "prompt"
    /\ Fields[field].kind = "default"
    /\ LET f   == Fields[field]
           r   == Read(stdin, tail)
           out == << EchoN(f.prompt \o " [" \o f.default \o "]: "),
                     Echo(DefaultExpand(r[1], f.default)) >>
       IN /\ shvars' = Assign(shvars, f.var, CommandSubst(out))
          /\ consumed' = [consumed EXCEPT ![f.var] = Taken(stdin, tail)]
          /\ stdin' = r[3]
          /\ tail' = r[4]
    /\ NextField
    /\ UNCHANGED <<exported, captured, response, ambient, term, composeFile,
                   childEnv, composeRc, exitStatus>>

\* prompt_required, lines 21-22: echo -n "$prompt: "; read response
RequiredRead ==
    /\ UNCHANGED <<ctlVars, loadVars>>
    /\ pc = "prompt"
    /\ Fields[field].kind = "required"
    /\ LET f == Fields[field]
           r == Read(stdin, tail)
       IN /\ captured' = Put(captured, EchoN(f.prompt \o ": "))
          /\ response' = r[1]
          /\ consumed' = [consumed EXCEPT ![f.var] = @ \o Taken(stdin, tail)]
          /\ stdin' = r[3]
          /\ tail' = r[4]
    /\ pc' = "check"
    /\ UNCHANGED <<field, shvars, exported, ambient, term, composeFile,
                   childEnv, composeRc, exitStatus>>

\* prompt_required, lines 20 and 23-26: the response is empty, the loop
\* goes round
RequiredRetry ==
    /\ UNCHANGED <<ctlVars, loadVars>>
    /\ pc = "check"
    /\ LoopAgain(response)
    /\ captured' = Put(captured, Echo(RequiredMsg))
    /\ pc' = "prompt"
    /\ UNCHANGED <<stdin, tail, field, shvars, exported, response, consumed,
                   ambient, term, composeFile, childEnv, composeRc, exitStatus>>

\* prompt_required, lines 20 and 27, and the assignment of lines 35-37
RequiredReturn ==
    /\ UNCHANGED <<ctlVars, loadVars>>
    /\ pc = "check"
    /\ ~LoopAgain(response)
    /\ shvars' = Assign(shvars, Fields[field].var,
                        CommandSubst(Append(captured, Echo(response))))
    /\ captured' = <<>>
    /\ response' = ""
    /\ NextField
    /\ UNCHANGED <<stdin, tail, exported, consumed, ambient, term, composeFile,
                   childEnv, composeRc, exitStatus>>

\* line 43
ExportVars ==
    /\ UNCHANGED <<ctlVars, loadVars>>
    /\ pc = "export"
    /\ exported' = exported \cup ExportList
    /\ pc' = "composefile"
    /\ UNCHANGED <<stdin, tail, field, shvars, captured, response, consumed, ambient, term,
                   composeFile, childEnv, composeRc, exitStatus>>

\* line 46
SetComposeFile ==
    /\ UNCHANGED <<ctlVars, loadVars>>
    /\ pc = "composefile"
    /\ composeFile' = "docker/compose." \o shvars["NODE_TYPE"] \o ".yml"
    /\ pc' = "up"
    /\ UNCHANGED <<stdin, tail, field, shvars, exported, captured, response, consumed, ambient,
                   term, childEnv, composeRc, exitStatus>>

\* lines 49-50: the child receives the exported variables; its exit status
\* is the container runtime's
ComposeUp ==
    /\ UNCHANGED <<ctlVars, loadVars>>
    /\ pc = "up"
    /\ term' = Append(term, "Starting containers...")
    /\ childEnv' = [n \in exported \cap DOMAIN shvars |-> shvars[n]]
    /\ \E rc \in {0, 1} :
          /\ composeRc' = rc
          /\ IF rc # 0 /\ ErrExit
             THEN pc' = "exit" /\ exitStatus' = rc
             ELSE pc' = "report" /\ exitStatus' = exitStatus
    /\ UNCHANGED <<stdin, tail, field, shvars, exported, captured, response, consumed, ambient,
                   composeFile>>

\* lines 52-55
ReportSuccess ==
    /\ UNCHANGED <<ctlVars, loadVars>>
    /\ pc = "report"
    /\ term' = term \o << "Containers started successfully!",
                          "docker compose -f " \o composeFile \o " logs -f" >>
    /\ pc' = "exit"
    /\ exitStatus' = 0
    /\ UNCHANGED <<stdin, tail, field, shvars, exported, captured, response, consumed, ambient,
                   composeFile, childEnv, composeRc>>

----------------------------------------------------------------------------
(* PM2 process launch descriptor set (ecosystem.config.js)                 *)

Suffixes == { "a1b2", "zz90", "q7q7" }

NoEnv == [k \in {} |-> ""]

\* environments the file may be evaluated in
ShellEnvs == { NoEnv, [k \in {"PROJECT_NAME"} |-> "prod"] }

DotEnvs == { NoEnv,
             [k \in {"PROJECT_NAME"} |-> "fromfile"],
             [k \in {"PROJECT_NAME", "WANDB_API_KEY"} |->
                 IF k = "PROJECT_NAME" THEN "fromfile" ELSE "key"] }

\* the fourth entry named as the fifth
AppTableDuplicate == <<
    [name |-> "TM1", script |-> "neurons/miner.py",     hotkey |-> "M1", device |-> "cuda:2", sep |-> " "],
    [name |-> "TM2", script |-> "neurons/miner.py",     hotkey |-> "M2", device |-> "cuda:3", sep |-> " "],
    [name |-> "TM3", script |-> "neurons/miner.py",     hotkey |-> "M3", device |-> "cuda:4", sep |-> " "],
    [name |-> "TM5", script |-> "neurons/miner.py",     hotkey |-> "M4", device |-> "cuda:5", sep |-> ""],
    [name |-> "TM5", script |-> "neurons/miner.py",     hotkey |-> "M5", device |-> "cuda:6", sep |-> " "],
    [name |-> "TV1", script |-> "neurons/validator.py", hotkey |-> "V1", device |-> "cuda:1", sep |-> " "] >>

\* the entries of apps: name, script, and the per-entry parts of args;
\* sep is what stands between the closing quote of --project and --local
AppTable == <<
    [name |-> "TM1", script |-> "neurons/miner.py",     hotkey |-> "M1", device |-> "cuda:2", sep |-> " "],
    [name |-> "TM2", script |-> "neurons/miner.py",     hotkey |-> "M2", device |-> "cuda:3", sep |-> " "],
    [name |-> "TM3", script |-> "neurons/miner.py",     hotkey |-> "M3", device |-> "cuda:4", sep |-> " "],
    [name |-> "TM4", script |-> "neurons/miner.py",     hotkey |-> "M4", device |-> "cuda:5", sep |-> ""],
    [name |-> "TM5", script |-> "neurons/miner.py",     hotkey |-> "M5", device |-> "cuda:6", sep |-> " "],
    [name |-> "TV1", script |-> "neurons/validator.py", hotkey |-> "V1", device |-> "cuda:1", sep |-> " "] >>

\* require('dotenv').config(): .env fills in what process.env lacks
DotenvConfig(penv, file) ==
    [k \in DOMAIN penv \cup DOMAIN file |->
        IF k \in DOMAIN penv THEN penv[k] ELSE file[k]]

\* const RANDOM_SUFFIX = execSync(...): the first draw of the evaluation
RandomSuffix(draws) == draws[1]

\* const PROJECT_NAME = `test_${RANDOM_SUFFIX}`
ProjectName(suffix) == "test_" \o suffix

\* the spread written last: process.env wins
EntryEnvSpreadLast(penv, project) ==
    [k \in DOMAIN penv \cup {"PROJECT_NAME"} |->
        IF k \in DOMAIN penv THEN penv[k] ELSE project]

\* env: { ...process.env, PROJECT_NAME: PROJECT_NAME }
EntryEnv(penv, project) ==
    [k \in DOMAIN penv \cup {"PROJECT_NAME"} |->
        IF k = "PROJECT_NAME" THEN project ELSE penv[k]]

Lit(str)    == [t |-> "lit", s |-> str]
Quoted(str) == [t |-> "quoted", s |-> str]
Gap(str)    == [t |-> "gap", s |-> str]

\* the args template literal, piece by piece
EntryArgs(e, project) ==
    << Lit("--wallet.name"), Gap(" "), Lit("Bistro"), Gap(" "),
       Lit("--wallet.hotkey"), Gap(" "), Lit(e.hotkey), Gap(" "),
       Lit("--device"), Gap(" "), Lit(e.device), Gap(" "),
       Lit("--subtensor.network"), Gap(" "), Lit("ws://127.0.0.1:9945"), Gap(" "),
       Lit("--netuid"), Gap(" "), Lit("1"), Gap(" "),
       Lit("--use_wandb"), Gap(" "),
       Lit("--project"), Gap(" "), Quoted(project), Gap(e.sep), Lit("--local") >>

\* module.exports.apps
Apps(penv, project) ==
    [i \in 1..Len(AppTable) |->
        [name |-> AppTable[i].name,
         script |-> AppTable[i].script,
         interpreter |-> "python3",
         env |-> EntryEnv(penv, project),
         args |-> EntryArgs(AppTable[i], project)]]

LoadIdle ==
    /\ shellEnv = NoEnv
    /\ dotEnv = NoEnv
    /\ apps = <<>>
    /\ loadLog = <<>>

LoadStart ==
    /\ shellEnv \in ShellEnvs
    /\ dotEnv \in DotEnvs
    /\ apps = <<>>
    /\ loadLog = <<>>

\* the process manager evaluates ecosystem.config.js
Load ==
    /\ UNCHANGED <<scriptVars, ctlVars>>
    /\ Len(loadLog) < MaxLoads
    /\ \E draws \in [1..2 -> Suffixes] :
          LET penv    == DotenvConfig(shellEnv, dotEnv)
              project == ProjectName(RandomSuffix(draws))
          IN /\ apps' = Apps(penv, project)
             /\ loadLog' = Append(loadLog, project)
    /\ UNCHANGED <<shellEnv, dotEnv>>

\* the operator edits .env between two loads
EditDotEnv ==
    /\ UNCHANGED <<scriptVars, ctlVars>>
    /\ Len(loadLog) < MaxLoads
    /\ dotEnv' \in DotEnvs
    /\ dotEnv' # dotEnv
    /\ UNCHANGED <<shellEnv, apps, loadLog>>

----------------------------------------------------------------------------
(* PM2 restart tasks (scripts/docker_run, lines 56-89)                     *)

\* an inventory variable: defined with a list, or undefined
Defined(list) == [defined |-> TRUE, list |-> list]
Undefined == [defined |-> FALSE, list |-> <<>>]

\* the five tasks in file order
Tasks == <<
    [kind |-> "include", file |-> "local.yml",  role |-> "", prefix |-> "", var |-> "", defaulted |-> FALSE],
    [kind |-> "include", file |-> "remote.yml", role |-> "", prefix |-> "", var |-> "", defaulted |-> FALSE],
    [kind |-> "restart", file |-> "", role |-> "validator",  prefix |-> "TV", var |-> "validator_hotkeys",  defaulted |-> FALSE],
    [kind |-> "restart", file |-> "", role |-> "aggregator", prefix |-> "TA", var |-> "aggregator_hotkeys", defaulted |-> TRUE],
    [kind |-> "restart", file |-> "", role |-> "miner",      prefix |-> "TM", var |-> "miner_hotkeys",      defaulted |-> FALSE] >>

HotkeyVars == { "validator_hotkeys", "aggregator_hotkeys", "miner_hotkeys" }

TemplarPath == "{{ templar_path }}"

\* a range that stops one short
RangeShort(a, b) == [i \in 1..(b - a - 1) |-> a + i - 1]

\* Jinja: range(a, b) | list
Range(a, b) == [i \in 1..(b - a) |-> a + i - 1]

\* Jinja: x | default([])
Default(x) == IF x = Undefined THEN Defined(<<>>) ELSE x

\* Jinja: x | length
Length(x) == Len(x.list)

\* the variable of a restart task as its expressions read it
Subject(t, hk) == IF t.defaulted THEN Default(hk[t.var]) ELSE hk[t.var]

DefinedNames == { AppTable[i].name : i \in 1..Len(AppTable) }

\* a loop over the indices whose process the descriptor set defines
RestartItemsExisting(t, hk) ==
    SelectSeq(Range(1, Length(Subject(t, hk)) + 1),
              LAMBDA i : (t.prefix \o ToString(i)) \in DefinedNames)

\* loop: "{{ range(1, <hotkeys>|length + 1) | list }}"
RestartItems(t, hk) == Range(1, Length(Subject(t, hk)) + 1)

\* when: <hotkeys>|length > 0
RestartWhen(t, hk) == Length(Subject(t, hk)) > 0

\* "TV{{ item }}"
TargetName(t, i) == t.prefix \o ToString(i)

\* shell: pm2 restart ecosystem.config.js --only "<name>", args: chdir
Directive(t, i, rc) ==
    [cmd   |-> "pm2 restart ecosystem.config.js --only \"" \o TargetName(t, i) \o "\"",
     chdir |-> TemplarPath,
     role  |-> t.role,
     index |-> i,
     rc    |-> rc]

\* errors ignored: the play goes on
PlayAfterIgnoreErrors(anyFailed) == "running"

\* a task with a failed item fails and ends the play for the host
PlayAfter(anyFailed) == IF anyFailed THEN "failed" ELSE "running"

HotkeyLists == { Defined([i \in 1..n |-> "hk"]) : n \in 0..MaxHotkeys } \cup {Undefined}

CtlIdle ==
    /\ hotkeys = [v \in HotkeyVars |-> Defined(<<>>)]
    /\ remoteMode = FALSE
    /\ task = 1
    /\ item = 1
    /\ issued = <<>>
    /\ results = [t \in 1..Len(Tasks) |-> "pending"]
    /\ play = "running"

CtlStart ==
    /\ hotkeys \in [HotkeyVars -> HotkeyLists]
    /\ remoteMode \in BOOLEAN
    /\ task = 1
    /\ item = 1
    /\ issued = <<>>
    /\ results = [t \in 1..Len(Tasks) |-> "pending"]
    /\ play = "running"

Running(kind) == play = "running" /\ task <= Len(Tasks) /\ Tasks[task].kind = kind

\* what ending task `task` with `result` does to the play
Conclude(result) ==
    /\ results' = [results EXCEPT ![task] = result]
    /\ item' = 1
    /\ LET next == PlayAfter(result = "failed") IN
       IF next = "failed" THEN task' = task /\ play' = "failed"
       ELSE /\ task' = task + 1
            /\ play' = IF task = Len(Tasks) THEN "ok" ELSE next

\* lines 57-65: include_tasks local.yml / remote.yml by remote_mode; the
\* included tasks succeed or fail
IncludeTasks ==
    /\ UNCHANGED <<scriptVars, loadVars>>
    /\ Running("include")
    /\ LET cond == IF Tasks[task].file = "local.yml" THEN ~remoteMode ELSE remoteMode
       IN IF cond THEN \E r \in {"ok", "failed"} : Conclude(r)
          ELSE Conclude("skipped")
    /\ UNCHANGED <<hotkeys, remoteMode, issued>>

\* a restart task whose hotkeys variable is undefined (and not defaulted):
\* templating the loop fails
RestartUndefined ==
    /\ UNCHANGED <<scriptVars, loadVars>>
    /\ Running("restart")
    /\ Subject(Tasks[task], hotkeys) = Undefined
    /\ Conclude("failed")
    /\ UNCHANGED <<hotkeys, remoteMode, issued>>

\* a restart task whose loop is empty is skipped
RestartSkipped ==
    /\ UNCHANGED <<scriptVars, loadVars>>
    /\ Running("restart")
    /\ Subject(Tasks[task], hotkeys) # Undefined
    /\ Len(RestartItems(Tasks[task], hotkeys)) = 0
    /\ Conclude("skipped")
    /\ UNCHANGED <<hotkeys, remoteMode, issued>>

AnyFailed(ds, role) == \E k \in 1..Len(ds) : ds[k].role = role /\ ds[k].rc # 0

\* one item of a restart task's loop: the directive is issued and PM2
\* answers with an exit status; after the last item the task ends
IssueDirective ==
    /\ UNCHANGED <<scriptVars, loadVars>>
    /\ Running("restart")
    /\ Subject(Tasks[task], hotkeys) # Undefined
    /\ LET t     == Tasks[task]
           items == RestartItems(t, hotkeys)
       IN /\ item <= Len(items)
          /\ RestartWhen(t, hotkeys)
          /\ \E rc \in {0, 1} :
                /\ issued' = Append(issued, Directive(t, items[item], rc))
                /\ IF item < Len(items)
                   THEN /\ item' = item + 1
                        /\ UNCHANGED <<task, results, play>>
                   ELSE Conclude(IF AnyFailed(issued', t.role) THEN "failed" ELSE "ok")
    /\ UNCHANGED <<hotkeys, remoteMode>>

----------------------------------------------------------------------------
(* Specifications                                                          *)

ScriptInit == ScriptStart /\ CtlIdle /\ LoadIdle

ScriptNext ==
    \/ Banner
    \/ PromptWithDefault
    \/ RequiredRead
    \/ RequiredRetry
    \/ RequiredReturn
    \/ ExportVars
    \/ SetComposeFile
    \/ ComposeUp
    \/ ReportSuccess

ScriptSpec == ScriptInit /\ [][ScriptNext]_vars

\* the shell runs the script's next command whenever there is one
ScriptLive == ScriptSpec /\ WF_vars(ScriptNext)

CtlInit == CtlStart /\ ScriptIdle /\ LoadIdle

CtlNext ==
    \/ IncludeTasks
    \/ RestartUndefined
    \/ RestartSkipped
    \/ IssueDirective

CtlSpec == CtlInit /\ [][CtlNext]_vars

LoadInit == LoadStart /\ ScriptIdle /\ CtlIdle

LoadNext ==
    \/ Load
    \/ EditDotEnv

LoadSpec == LoadInit /\ [][LoadNext]_vars

----------------------------------------------------------------------------
(* Properties of the interactive launch script                             *)

\* the prompt of field i has returned and its variable is assigned
Assigned(i) == i < field \/ pc \notin {"banner", "prompt", "check"}

Blank(l) == l.body = ""

Printed(msg) == \E k \in 1..Len(term) : term[k] = msg

SuccessMsg == "Containers started successfully!"

RECURSIVE Count(_, _)
Count(chunks, text) ==
    IF chunks = <<>> THEN 0
    ELSE (IF Head(chunks).text = text THEN 1 ELSE 0) + Count(Tail(chunks), text)

RECURSIVE Retries(_, _)
Retries(prompt, n) ==
    IF n = 0 THEN ""
    ELSE prompt \o ": " \o RequiredMsg \o "\n" \o Retries(prompt, n - 1)

\* C2 (as claimed): every optional variable holds exactly the default when
\* the operator's line is empty and exactly the operator's line otherwise;
\* NODE_TYPE left blank selects docker/compose.miner.yml.
C2_OptionalResolvesToDefaultOrInput ==
    /\ \A i \in 1..Len(Fields) :
          (Fields[i].kind = "default" /\ Assigned(i)) =>
             LET c == consumed[Fields[i].var] IN
             shvars[Fields[i].var] =
                IF c = <<>> \/ RawLine(c[1]) = "" THEN Fields[i].default
                ELSE RawLine(c[1])
    /\ (composeFile # "" /\ (consumed["NODE_TYPE"] = <<>>
                             \/ RawLine(consumed["NODE_TYPE"][1]) = ""))
          => composeFile = "docker/compose.miner.yml"

\* C3: prompt_required never accepts an empty value: while every line read
\* for a required field is empty it has not returned, each empty line is
\* answered by the required-field message and a new prompt, and once it has
\* returned the response it accepted and the variable are non-empty.
C3_RequiredNeverEmpty ==
    \A i \in 1..Len(Fields) :
       Fields[i].kind = "required" =>
          LET v == Fields[i].var
              c == consumed[v]
          IN /\ (\A k \in 1..Len(c) : Blank(c[k])) => ~Assigned(i)
             /\ Assigned(i) =>
                   /\ shvars[v] # ""
                   /\ c # <<>>
                   /\ ~Blank(c[Len(c)])
                   /\ \A k \in 1..(Len(c) - 1) : Blank(c[k])
                   /\ shvars[v] = Retries(Fields[i].prompt, Len(c) - 1)
                                  \o Fields[i].prompt \o ": " \o ReadStrip(c[Len(c)])
             /\ (i = field /\ pc = "prompt") =>
                   /\ Count(captured, RequiredMsg) >= Len(c)
                   /\ Len(captured) < CaptureCap =>
                         Count(captured, Fields[i].prompt \o ": ")
                            = Count(captured, RequiredMsg)

\* a required field returned after at least one empty line was refused
C3_Witness ==
    /\ Assigned(2)
    /\ Len(consumed["WALLET_NAME"]) >= 2
    /\ Blank(consumed["WALLET_NAME"][1])

\* C4 (as claimed): when compose is invoked all seven variables are in the
\* child's environment with the collected values.
C4_AllSevenExported ==
    composeRc # -1 =>
       \A v \in FieldVars : v \in DOMAIN childEnv /\ childEnv[v] = shvars[v]

\* C4 (amended): when compose is invoked the six variables of the export
\* line are in the child's environment with the collected values; NODE_TYPE
\* is there only when the invoking environment already exported it.
C4_ExportListExported ==
    composeRc # -1 =>
       /\ \A v \in FieldVars \ {"NODE_TYPE"} :
             v \in DOMAIN childEnv /\ childEnv[v] = shvars[v]
       /\ "NODE_TYPE" \in DOMAIN childEnv <=> "NODE_TYPE" \in ambient
       /\ \A v \in DOMAIN childEnv : childEnv[v] = shvars[v]

\* compose was invoked from an environment that did not export NODE_TYPE
C4_Witness ==
    /\ composeRc # -1
    /\ "NODE_TYPE" \notin ambient
    /\ "DEBUG" \in DOMAIN childEnv

\* C7: a failing `docker compose up` ends the script with that failure
\* status and the success message is never printed; the message is printed
\* only after a compose invocation that succeeded.
C7_ComposeFailureFatal ==
    /\ composeRc > 0 =>
          /\ pc = "exit"
          /\ exitStatus = composeRc
          /\ ~Printed(SuccessMsg)
    /\ Printed(SuccessMsg) => composeRc = 0

\* compose failed and the script has ended
C7_Witness == composeRc = 1 /\ pc = "exit" /\ exitStatus = 1

\* C10 (as claimed): the script always eventually reaches the compose
\* invocation or an exit.
C10_ScriptTerminates == <>(composeRc # -1 \/ exitStatus # -1)

----------------------------------------------------------------------------
(* Properties of the restart tasks                                         *)

Numeral == <<"1", "2", "3", "4", "5", "6", "7", "8", "9">>

RestartTasks == { t \in 1..Len(Tasks) : Tasks[t].kind = "restart" }

\* the directives issued for the role of task t, in issue order
IssuedFor(t) == SelectSeq(issued, LAMBDA d : d.role = Tasks[t].role)

\* the number of hotkeys of task t (0 for an undefined, defaulted variable)
Count0(t) == Len(hotkeys[Tasks[t].var].list)

\* task t can be evaluated: its variable is defined or defaulted
Evaluable(t) == hotkeys[Tasks[t].var].defined \/ Tasks[t].defaulted

ExpectedCmd(t, i) ==
    "pm2 restart ecosystem.config.js --only \"" \o Tasks[t].prefix \o Numeral[i] \o "\""

\* C1: every restart task that is run issues, for a hotkey list of length
\* N, exactly the N directives `pm2 restart ecosystem.config.js --only
\* "<Prefix><i>"` for i = 1..N in ascending order, each in templar_path;
\* with N = 0 (an undefined aggregator_hotkeys included) it issues none and
\* does not fail.
C1_ExactlyNDirectivesInOrder ==
    \A t \in RestartTasks :
       Evaluable(t) =>
          LET ds == IssuedFor(t)
              N  == Count0(t)
          IN /\ Len(ds) <= N
             /\ \A k \in 1..Len(ds) :
                   /\ ds[k].index = k
                   /\ ds[k].cmd = ExpectedCmd(t, k)
                   /\ ds[k].chdir = "{{ templar_path }}"
             /\ results[t] # "pending" => Len(ds) = N
             /\ (results[t] # "pending" /\ N = 0) => results[t] = "skipped"
             /\ (play = "ok") => Len(ds) = N

\* the miner task has run with five hotkeys and the play has ended
C1_Witness ==
    /\ play = "ok"
    /\ Count0(5) = 5
    /\ Len(IssuedFor(5)) = 5
    /\ ~hotkeys["aggregator_hotkeys"].defined

\* the directives of a run in which nothing fails, in issue order
RECURSIVE FailureFree(_)
FailureFree(t) ==
    IF t > Len(Tasks) THEN <<>>
    ELSE IF Tasks[t].kind # "restart" THEN FailureFree(t + 1)
    ELSE IF ~Evaluable(t) THEN <<>>
    ELSE [i \in 1..Count0(t) |-> [role |-> Tasks[t].role, index |-> i]]
         \o FailureFree(t + 1)

Ended == play # "running"

WasIssued(role, index) ==
    \E k \in 1..Len(issued) : issued[k].role = role /\ issued[k].index = index

NoRetry ==
    \A j, k \in 1..Len(issued) :
       (issued[j].role = issued[k].role /\ issued[j].index = issued[k].index) => j = k

\* C6 (as claimed): no directive is retried, and once the run has ended
\* every directive that follows a failed directive in the failure-free run
\* has been issued.
C6_FailureBlocksNothing ==
    /\ NoRetry
    /\ Ended =>
          LET ff == FailureFree(1) IN
          \A j, k \in 1..Len(ff) :
             (j < k /\ \E d \in 1..Len(issued) :
                          /\ issued[d].role = ff[j].role
                          /\ issued[d].index = ff[j].index
                          /\ issued[d].rc # 0)
                => WasIssued(ff[k].role, ff[k].index)

\* C6 (amended): no directive is retried, and a failed directive does not
\* block the later indices of its own task: a task that has run has issued
\* all of its directives. The failure is fatal to the run: the task is
\* failed, the play ends failed, and no directive of a later task is issued.
C6_FailureEndsPlayAfterTask ==
    /\ NoRetry
    /\ \A t \in RestartTasks :
          /\ (Evaluable(t) /\ results[t] # "pending") => Len(IssuedFor(t)) = Count0(t)
          /\ (results[t] # "pending" /\ AnyFailed(issued, Tasks[t].role)) =>
                /\ results[t] = "failed"
                /\ play = "failed"
                /\ \A u \in RestartTasks : u > t => IssuedFor(u) = <<>>

\* the first validator directive failed, the second was still issued, and
\* the miner task, which has hotkeys, was never run
C6_Witness ==
    /\ play = "failed"
    /\ Len(IssuedFor(3)) = 2
    /\ IssuedFor(3)[1].rc # 0
    /\ Count0(5) > 0
    /\ IssuedFor(5) = <<>>

\* the number of processes of task t's role that the descriptor set defines
DefinedCount(t) ==
    Cardinality({ n \in DefinedNames : \E i \in 1..Len(Numeral) :
                     n = Tasks[t].prefix \o Numeral[i] })

\* C9: a restart task that is run issues the directives of the indices
\* beyond the processes the descriptor set defines like any other, and the
\* task fails only when a directive's own exit status is a failure.
C9_NoExistenceCheck ==
    \A t \in RestartTasks :
       (Evaluable(t) /\ results[t] # "pending") =>
          /\ \A i \in 1..Count0(t) :
                i > DefinedCount(t) => WasIssued(Tasks[t].role, i)
          /\ results[t] = "failed" <=> AnyFailed(issued, Tasks[t].role)

\* the aggregator task, for which nothing is defined, and the miner task
\* with six hotkeys for five processes both ran without an error
C9_Witness ==
    /\ play = "ok"
    /\ Count0(4) >= 1
    /\ Count0(5) = 6
    /\ WasIssued("aggregator", 1)
    /\ WasIssued("miner", 6)

----------------------------------------------------------------------------
(* Properties of the descriptor set                                        *)

\* the value of the flag `flag` in args: the piece after the flag's gap
FlagValue(args, flag) ==
    LET k == CHOOSE j \in 1..Len(args) : args[j] = Lit(flag) IN args[k + 2].s

\* C5: in one load the run identifier is computed once and every entry of
\* apps carries it: all env.PROJECT_NAME are equal, each entry's --project
\* argument is its env.PROJECT_NAME, and the value is the generated one
\* whatever PROJECT_NAME process.env or .env define.
C5_SharedRunIdentifier ==
    apps # <<>> =>
       /\ \A i, j \in 1..Len(apps) :
             apps[i].env["PROJECT_NAME"] = apps[j].env["PROJECT_NAME"]
       /\ \A i \in 1..Len(apps) :
             /\ FlagValue(apps[i].args, "--project") = apps[i].env["PROJECT_NAME"]
             /\ apps[i].env["PROJECT_NAME"] = loadLog[Len(loadLog)]
             /\ \E x \in Suffixes : apps[i].env["PROJECT_NAME"] = "test_" \o x

\* a load in an environment that already defines PROJECT_NAME
C5_Witness ==
    /\ apps # <<>>
    /\ "PROJECT_NAME" \in DOMAIN shellEnv
    /\ "PROJECT_NAME" \in DOMAIN dotEnv
    /\ apps[1].env["PROJECT_NAME"] # shellEnv["PROJECT_NAME"]

Prefixes == { "TM", "TV", "TA" }

\* the indices of the loaded entries named <prefix><index>
Indices(prefix) ==
    { i \in 1..Len(Numeral) :
         \E k \in 1..Len(apps) : apps[k].name = prefix \o Numeral[i] }

TaskOf(prefix) == CHOOSE t \in RestartTasks : Tasks[t].prefix = prefix

\* the names a restart task addresses for n hotkeys
Addressed(prefix, n) ==
    LET t  == Tasks[TaskOf(prefix)]
        hk == [v \in HotkeyVars |-> Defined([i \in 1..n |-> "hk"])]
        it == RestartItems(t, hk)
    IN { TargetName(t, it[k]) : k \in 1..Len(it) }

\* C8: the names of the descriptor set are pairwise distinct, each is a
\* role prefix followed by an index, and per prefix the indices are exactly
\* 1..k, so that the restart task of that role addresses, for k hotkeys,
\* exactly the defined names of the role.
C8_NamesUniqueContiguous ==
    apps # <<>> =>
       /\ \A i, j \in 1..Len(apps) : apps[i].name = apps[j].name => i = j
       /\ \A i \in 1..Len(apps) :
             \E p \in Prefixes, n \in 1..Len(Numeral) : apps[i].name = p \o Numeral[n]
       /\ \A p \in Prefixes :
             LET k == Cardinality(Indices(p)) IN
             /\ Indices(p) = 1..k
             /\ Addressed(p, k) = { apps[i].name : i \in 1..Len(apps) } \cap
                                     { p \o Numeral[n] : n \in 1..Len(Numeral) }

\* the descriptor set is loaded with its five miners and one validator
C8_Witness ==
    /\ apps # <<>>
    /\ Cardinality(Indices("TM")) = 5
    /\ Cardinality(Indices("TV")) = 1
    /\ Addressed("TM", 5) # {}

====
